---- MODULE Spec2Model ----
(***************************************************************************)
(* A model of the gallery downloader: main.main, downloader.process_url,   *)
(* downloader.download_with_retries, downloader.download, the URL handlers *)
(* of url_handler.py and the ledger / CDN helpers of utils.py.             *)
(*                                                                         *)
(* Strings are modelled as sequences of tokens: "https://", a host name, a *)
(* word, or one of the separators "/", "." and "?".  The empty sequence is *)
(* the empty string, and also Python's None wherever the code only tests a *)
(* value for truth.                                                        *)
(***************************************************************************)
EXTENDS Integers, Sequences, FiniteSets, Bags, TLC

\* ------------------------------------------------------------------ bounds
MaxItems == 2
MaxRetries == 1
MaxRuns == 2
RetryDepth == 3
MaxHosts == 3
MaxBatch == 11
MaxTitle == 3
MaxEntries == 7

\* ------------------------------------------------------- program constants
PoolCap == 10

\* --------------------------------------------------------- string helpers
None == <<>>

Range(s) == {s[i] : i \in 1..Len(s)}

StartsWith(s, p) == Len(s) >= Len(p) /\ SubSeq(s, 1, Len(p)) = p

\* str.find(sub): the first position (1-based) where sub occurs, 0 if none.
Find(s, sub) ==
    LET hits == {i \in 1..(Len(s) - Len(sub) + 1) : SubSeq(s, i, i + Len(sub) - 1) = sub}
    IN  IF hits = {} THEN 0 ELSE CHOOSE i \in hits : \A j \in hits : i <= j

\* the last position of token t in s, 0 if none.
RFind(s, t) ==
    LET hits == {i \in 1..Len(s) : s[i] = t}
    IN  IF hits = {} THEN 0 ELSE CHOOSE i \in hits : \A j \in hits : i >= j

\* str.replace(old, new): every non-overlapping occurrence, left to right.
RECURSIVE Replace(_, _, _)
Replace(s, old, new) ==
    LET p == Find(s, old)
    IN  IF p = 0 THEN s
        ELSE SubSeq(s, 1, p - 1) \o new \o Replace(SubSeq(s, p + Len(old), Len(s)), old, new)

\* urlparse(url).path: what follows the host, up to the query.
UrlPath(url) ==
    LET rest == IF Len(url) >= 2 /\ url[1] = "https://" THEN SubSeq(url, 3, Len(url)) ELSE url
        q == Find(rest, <<"?">>)
    IN  IF q = 0 THEN rest ELSE SubSeq(rest, 1, q - 1)

UrlHost(url) == IF Len(url) >= 2 /\ url[1] = "https://" THEN <<url[2]>> ELSE None

\* os.path.basename
Basename(path) == SubSeq(path, RFind(path, "/") + 1, Len(path))

\* os.path.splitext(name)[1]: from the last dot on, unless only dots precede it.
SplitExt(name) ==
    LET d == RFind(name, ".")
    IN  IF d # 0 /\ (\E i \in 1..(d - 1) : name[i] # ".")
        THEN SubSeq(name, d, Len(name))
        ELSE None

get_url_data(url) ==
    LET file_name == Basename(UrlPath(url))
    IN  [file_name |-> file_name, extension |-> SplitExt(file_name), hostname |-> UrlHost(url)]

\* ------------------------------------------------- utils.remove_illegal_chars
\* An album title is a sequence of code points.
Dash == 45

\* The character class [<>:"/\\|?*\'] of the pattern.
IllegalPunctuation == {60, 62, 58, 34, 47, 92, 124, 63, 42, 39}

\* The character class [\0-\31]: inside a class both escapes are octal.
IllegalControls == 0..(3 * 8 + 1)

\* What str.strip() takes for whitespace.
Whitespace == {9, 10, 11, 12, 13, 28, 29, 30, 31, 32, 133, 160}

\* re.sub(pattern, "-", string)
Substitute(string) ==
    [i \in 1..Len(string) |->
        IF string[i] \in IllegalPunctuation \cup IllegalControls THEN Dash ELSE string[i]]

\* str.strip()
RECURSIVE StripWhitespace(_)
StripWhitespace(s) ==
    IF s # <<>> /\ Head(s) \in Whitespace THEN StripWhitespace(Tail(s))
    ELSE IF s # <<>> /\ s[Len(s)] \in Whitespace THEN StripWhitespace(SubSeq(s, 1, Len(s) - 1))
    ELSE s

\* The title trimmed before its characters are replaced.
remove_illegal_chars_trim_first(string) == Substitute(StripWhitespace(string))

remove_illegal_chars(string) == StripWhitespace(Substitute(string))

\* ------------------------------------------------------------ HTTP replies
\* A reply to one GET: err is a transport error (requests.RequestException).
Reply(err, status) == [err |-> err, status |-> status]
ProbeReplies == {Reply(TRUE, 0), Reply(FALSE, 200), Reply(FALSE, 404), Reply(FALSE, 403),
                 Reply(FALSE, 500)}

\* --------------------------------------------------------------- CdnProbe
\* utils.get_cdn_file_url: net[i] is what the i-th host of cdn_list answers.
\* The result carries the URL (None when nothing is returned) and the list of
\* URLs that were requested, in order.
CdnCandidate(cdn, gallery_url, file_name) ==
    IF file_name = None
    THEN <<"https://", cdn, "/">>
         \o SubSeq(gallery_url, Find(gallery_url, <<"/", "d", "/">>) + 3, Len(gallery_url))
    ELSE <<"https://", cdn, "/">> \o file_name

RECURSIVE CdnLoop(_, _, _, _, _, _)
CdnLoop(cdn_list, i, gallery_url, file_name, net, probed) ==
    IF i > Len(cdn_list) THEN [url |-> None, probed |-> probed]
    ELSE IF file_name = None /\ Find(gallery_url, <<"/", "d", "/">>) = 0
    THEN [url |-> None, probed |-> probed]
    ELSE LET url_to_test == CdnCandidate(cdn_list[i], gallery_url, file_name)
             seen == Append(probed, url_to_test)
         IN  IF net[i].err THEN CdnLoop(cdn_list, i + 1, gallery_url, file_name, net, seen)
             ELSE IF net[i].status = 200 THEN [url |-> url_to_test, probed |-> seen]
             ELSE IF net[i].status = 404
             THEN CdnLoop(cdn_list, i + 1, gallery_url, file_name, net, seen)
             ELSE [url |-> None, probed |-> seen]

\* The probe with a transport error taken for a hard stop.
RECURSIVE CdnLoopStrict(_, _, _, _, _, _)
CdnLoopStrict(cdn_list, i, gallery_url, file_name, net, probed) ==
    IF i > Len(cdn_list) THEN [url |-> None, probed |-> probed]
    ELSE IF file_name = None /\ Find(gallery_url, <<"/", "d", "/">>) = 0
    THEN [url |-> None, probed |-> probed]
    ELSE LET url_to_test == CdnCandidate(cdn_list[i], gallery_url, file_name)
             seen == Append(probed, url_to_test)
         IN  IF net[i].err THEN [url |-> None, probed |-> seen]
             ELSE IF net[i].status = 200 THEN [url |-> url_to_test, probed |-> seen]
             ELSE IF net[i].status = 404
             THEN CdnLoopStrict(cdn_list, i + 1, gallery_url, file_name, net, seen)
             ELSE [url |-> None, probed |-> seen]

get_cdn_file_url_strict(cdn_list, gallery_url, file_name, net) ==
    IF cdn_list = <<>> THEN [url |-> None, probed |-> <<>>]
    ELSE CdnLoopStrict(cdn_list, 1, gallery_url, file_name, net, <<>>)

\* The probe with every status but 200 taken for "try the next host".
RECURSIVE CdnLoopLenient(_, _, _, _, _, _)
CdnLoopLenient(cdn_list, i, gallery_url, file_name, net, probed) ==
    IF i > Len(cdn_list) THEN [url |-> None, probed |-> probed]
    ELSE IF file_name = None /\ Find(gallery_url, <<"/", "d", "/">>) = 0
    THEN [url |-> None, probed |-> probed]
    ELSE LET url_to_test == CdnCandidate(cdn_list[i], gallery_url, file_name)
             seen == Append(probed, url_to_test)
         IN  IF net[i].err THEN CdnLoopLenient(cdn_list, i + 1, gallery_url, file_name, net, seen)
             ELSE IF net[i].status = 200 THEN [url |-> url_to_test, probed |-> seen]
             ELSE CdnLoopLenient(cdn_list, i + 1, gallery_url, file_name, net, seen)

get_cdn_file_url_lenient(cdn_list, gallery_url, file_name, net) ==
    IF cdn_list = <<>> THEN [url |-> None, probed |-> <<>>]
    ELSE CdnLoopLenient(cdn_list, 1, gallery_url, file_name, net, <<>>)

get_cdn_file_url(cdn_list, gallery_url, file_name, net) ==
    IF cdn_list = <<>> THEN [url |-> None, probed |-> <<>>]
    ELSE CdnLoop(cdn_list, 1, gallery_url, file_name, net, <<>>)

\* -------------------------------------------------------------- resolvers
\* What a resolver hands back: kind "item" (a dict), "none" (None) or "raise"
\* (an exception left the call, error names it); probed lists the CDN URLs it
\* requested.
Resolved(url, name, probed) ==
    [kind |-> "item", url |-> url, name |-> name, probed |-> probed, error |-> ""]
Unresolved(probed) ==
    [kind |-> "none", url |-> None, name |-> None, probed |-> probed, error |-> ""]
Raised(error) ==
    [kind |-> "raise", url |-> None, name |-> None, probed |-> <<>>, error |-> error]

\* A bunkr item page: source, player and img list the src of every <source>,
\* <media-player> and <img class="max-h-full"> in document order (None for an
\* element without src); heading is the <h1 class="truncate">.
BunkrPage(err, status, source, player, img, heading) ==
    [err |-> err, status |-> status, source |-> source, player |-> player, img |-> img,
     heading |-> heading]

\* soup.find(tag): the first element; element.get(attr) is its src.
FirstSrc(elems) == IF elems = <<>> THEN None ELSE Head(elems)

BunkrNormalize(url) ==
    IF StartsWith(url, <<"https://">>) THEN url ELSE <<"https://", "bunkr.sk">> \o url

BunkrURLHandler(cdn_list, url, page, net) ==
    LET full == BunkrNormalize(url)
    IN  IF page.err THEN Raised("RequestException")
        ELSE IF page.status # 200 THEN Unresolved(<<>>)
        ELSE IF FirstSrc(page.source) # None THEN Resolved(FirstSrc(page.source), None, <<>>)
        ELSE IF FirstSrc(page.player) # None THEN Resolved(FirstSrc(page.player), None, <<>>)
        ELSE IF FirstSrc(page.img) # None THEN Resolved(FirstSrc(page.img), None, <<>>)
        ELSE IF page.heading
        THEN LET r == get_cdn_file_url(cdn_list, full, None, net)
             IN  IF r.url # None THEN Resolved(r.url, None, r.probed) ELSE Unresolved(r.probed)
        ELSE Unresolved(<<>>)

\* The parsed document of a bunkr item page: its elements in document order,
\* each with its tag and its src (None when the attribute is missing or empty).
\* Tag "img" stands for an <img class="max-h-full">, "h1" for the
\* <h1 class="truncate">.
Element(tag, src) == [tag |-> tag, src |-> src]

\* The src of every element of doc with the given tag, in document order.
RECURSIVE SrcsOf(_, _)
SrcsOf(doc, tag) ==
    IF doc = <<>> THEN <<>>
    ELSE (IF Head(doc).tag = tag THEN <<Head(doc).src>> ELSE <<>>) \o SrcsOf(Tail(doc), tag)

\* BeautifulSoup(response.content) as the resolver looks at it.
ParsePage(status, doc) ==
    BunkrPage(FALSE, status, SrcsOf(doc, "source"), SrcsOf(doc, "media-player"),
              SrcsOf(doc, "img"), SrcsOf(doc, "h1") # <<>>)

\* The cyberdrop API reply: body is "json" (an object with a url key),
\* "nokey" (valid JSON without url) or "garbage" (not JSON).
ApiReply(err, status, body, url, name) ==
    [err |-> err, status |-> status, body |-> body, url |-> url, name |-> name]

CyberdropApiUrl(url) == Replace(url, <<"/", "f", "/">>, <<"/", "api", "/", "f", "/">>)

CyberdropURLHandler(url, api) ==
    IF api.err THEN Raised("RequestException")
    ELSE IF api.status # 200 THEN Unresolved(<<>>)
    ELSE IF api.body = "garbage" THEN Unresolved(<<>>)
    ELSE IF api.body = "nokey" THEN Raised("KeyError")
    ELSE Resolved(api.url, api.name, <<>>)

\* ------------------------------------------------------------- the inputs
\* The input file of main: two gallery URLs, one of each site family.
UrlA == <<"https://", "bunkr.sk", "/", "a", "/", "a">>
UrlB == <<"https://", "cyberdrop.me", "/", "a", "/", "y">>
InputFile == <<UrlA, UrlB>>

\* The values of -e the runs are started with.
ExtensionArgs == {<<>>, <<".", "jpg", ",", " ", ".", "gif">>}

\* What the status page yielded at startup (network.get_cdn_list).
CdnHosts == <<"c1">>

\* hrefs a gallery page can list.
BunkrHrefs == {<<"/", "d", "/", "a", ".", "jpg">>}
CyberHrefs == {<<"/", "f", "/", "p">>}

Dirs == {"x", "y"}

ItemLists(hrefs, cap) == UNION {[1..n -> hrefs] : n \in 0..cap}

\* A reply to the GET of an input URL: the title marker, the direct-link
\* marker, the album heading and the hrefs of the item anchors.
GalleryReply(err, status, bunkr, direct, album, hrefs) ==
    [err |-> err, status |-> status, bunkr |-> bunkr, direct |-> direct, album |-> album,
     hrefs |-> hrefs]

GalleryReplies(url, cap) ==
    {GalleryReply(TRUE, 0, FALSE, FALSE, "", <<>>), GalleryReply(FALSE, 404, FALSE, FALSE, "", <<>>)}
    \cup (IF url = UrlA
          THEN {GalleryReply(FALSE, 200, TRUE, FALSE, "x", l) : l \in ItemLists(BunkrHrefs, cap)}
               \cup {GalleryReply(FALSE, 200, TRUE, TRUE, "x", <<>>)}
          ELSE {GalleryReply(FALSE, 200, FALSE, FALSE, "y", l) : l \in ItemLists(CyberHrefs, cap)})

\* The media URL a bunkr item page of url names in its <source>.
MediaUrl(url) == <<"https://", "media", "/", Head(Basename(UrlPath(url))), ".", "mp4">>

BunkrPages(url) ==
    {BunkrPage(TRUE, 0, <<>>, <<>>, <<>>, FALSE),
     BunkrPage(FALSE, 404, <<>>, <<>>, <<>>, FALSE),
     BunkrPage(FALSE, 200, <<MediaUrl(url)>>, <<>>, <<>>, TRUE),
     BunkrPage(FALSE, 200, <<>>, <<>>, <<>>, TRUE),
     BunkrPage(FALSE, 200, <<>>, <<>>, <<>>, FALSE)}

CyberFileUrl(url) ==
    <<"https://", "k.cd", "/", "api", "/", "file", "/", "d", "/">>
    \o Basename(UrlPath(url)) \o <<"?", "tok">>

\* The API signs the file URL anew: the same file under another token.
CyberFileUrlAgain(url) ==
    <<"https://", "k.cd", "/", "api", "/", "file", "/", "d", "/">>
    \o Basename(UrlPath(url)) \o <<"?", "tok2">>

\* The replies to the n-th API request of a call of process_url: the token
\* of the first request is not handed out again to a later one.
ApiReplies(url, n) ==
    {ApiReply(TRUE, 0, "", None, None), ApiReply(FALSE, 404, "", None, None),
     ApiReply(FALSE, 200, "garbage", None, None), ApiReply(FALSE, 200, "nokey", None, None),
     ApiReply(FALSE, 200, "json", IF n <= 1 THEN CyberFileUrl(url) ELSE CyberFileUrlAgain(url),
              <<"p", ".", "png">>)}

\* A reply to the GET of a file: err is "none", "connect" (a transport error
\* before any byte), "stream" (a transport error while the body is read) or
\* "os" (open() fails); clen is the declared content-length (-1: no header),
\* size the number of bytes that reached the file.
FileReply(err, status, maintenance, clen, size) ==
    [err |-> err, status |-> status, maintenance |-> maintenance, clen |-> clen, size |-> size]

FullSize == 2

FileReplies ==
    {FileReply("connect", 0, FALSE, -1, 0), FileReply("stream", 200, FALSE, FullSize, 1),
     FileReply("os", 200, FALSE, FullSize, 0), FileReply("none", 404, FALSE, -1, 0),
     FileReply("none", 200, TRUE, -1, 0)}
    \cup {FileReply("none", 200, FALSE, c, n) : c \in {-1, FullSize}, n \in 1..FullSize}

\* A file URL on a host that is down: every GET of it fails to connect.
DownUrl == <<"https://", "down", "/", "a", ".", "mp4">>

\* The replies the network can give to the GET of a file URL.
Served(url) ==
    IF UrlHost(url) = <<"down">> THEN {FileReply("connect", 0, FALSE, -1, 0)} ELSE FileReplies

\* ------------------------------------------------------------------ state
VARIABLES
    \* the filesystem, which outlives a run
    prepared,            \* the album directories that exist (each with its ledger file)
    ledger,              \* already_downloaded.txt of each directory, line by line
    url_list,            \* url_list.txt of each directory, line by line
    disk,                \* the media files: [dir, name, size]
    \* one run of main
    run, retries, extensions, only_export, cdn_list,
    item_cap,            \* the most item anchors a gallery page lists
    phase,               \* "idle", "items", "pool", "exit" or "crashed"
    idx,                 \* the position of main's loop in the input file
    \* the locals of process_url
    is_bunkr, direct_link, download_path, already_downloaded, items, item_idx,
    download_tasks, max_workers,
    resolved,            \* the URL each finished turn of the item loop went on with (None
                         \* when the item was skipped), in loop order
    \* the worker pool
    ts,                  \* the state of each submitted task
    file_lock,           \* 0 when free, else the task that holds it
    \* what an observer of the run has seen
    complete,            \* [dir, url] of every body that reached the disk whole
    landed,              \* [dir, url] of every body that reached the disk to its end
                         \* and was not contradicted by a declared length that is checked
    probed,              \* the URLs the CDN probe requested during this call of process_url
    fetched,             \* the URLs download requested for the batch of this call
    report,              \* the lines process_url printed in this call, by kind
    \* a helper called on its own
    call,                \* the helper and its arguments
    result               \* what it returned

fsVars == <<prepared, ledger, url_list, disk>>
helperVars == <<call, result>>
argVars == <<run, retries, extensions, only_export, cdn_list, item_cap, helperVars>>
callVars == <<is_bunkr, direct_link, download_path, already_downloaded, items, item_idx,
              download_tasks, max_workers, resolved>>
poolVars == <<ts, file_lock>>
obsVars == <<complete, landed>>
vars == <<fsVars, argVars, phase, idx, callVars, poolVars, obsVars, probed, fetched, report>>

\* ------------------------------------------------------- pure helpers
\* str.split(",")
RECURSIVE SplitComma(_)
SplitComma(s) ==
    LET p == Find(s, <<",">>)
    IN  IF p = 0 THEN <<s>> ELSE <<SubSeq(s, 1, p - 1)>> \o SplitComma(SubSeq(s, p + 1, Len(s)))

\* str.strip()
RECURSIVE Strip(_)
Strip(s) ==
    IF s # <<>> /\ Head(s) = " " THEN Strip(Tail(s))
    ELSE IF s # <<>> /\ s[Len(s)] = " " THEN Strip(SubSeq(s, 1, Len(s) - 1))
    ELSE s

\* downloader.py:106-108
ExtensionsList(ext) ==
    IF ext = <<>> THEN <<>>
    ELSE LET parts == SplitComma(ext) IN [i \in 1..Len(parts) |-> Strip(parts[i])]

\* The filter without its ledger test.
PassesFilterNoDedup(url, extensions_list, downloaded) ==
    extensions_list = <<>> \/ get_url_data(url).extension \in Range(extensions_list)

\* The filter without its extension test.
PassesFilterNoExtension(url, extensions_list, downloaded) == url \notin Range(downloaded)

\* downloader.py:121-123: the extension and dedup filters.
PassesFilter(url, extensions_list, downloaded) ==
    /\ extensions_list = <<>> \/ get_url_data(url).extension \in Range(extensions_list)
    /\ url \notin Range(downloaded)

\* The integrity check left out.
SizeAcceptedAlways(bunkr, file_size, downloaded_size) == TRUE

\* The integrity check with > for !=.
SizeAcceptedUnlessLonger(bunkr, file_size, downloaded_size) ==
    ~(bunkr /\ file_size > 0 /\ downloaded_size > file_size)

\* downloader.py:239-245: TRUE when the integrity check lets the file through.
SizeAccepted(bunkr, file_size, downloaded_size) ==
    ~(bunkr /\ file_size > 0 /\ downloaded_size # file_size)

\* A backoff sleep after the last attempt too.
SleepsAfterEvery(attempt, n) == TRUE

\* downloader.py:185: whether a failed attempt is followed by a backoff sleep.
SleepsAfter(attempt, n) == attempt < n

\* downloader.py:179: whether the retry loop runs attempt number a.
HasAttempt(a, n) == a <= n

\* downloader.py:212
FileName(task) == IF task.name # None THEN task.name ELSE get_url_data(task.url).file_name

\* max for min.
Larger(a, b) == IF a >= b THEN a ELSE b

Min(a, b) == IF a <= b THEN a ELSE b

Item(url, name) == [url |-> url, name |-> name]
\* A submitted task: the task dict and the download_path handed to submit.
Task(url, name, bunkr, n, path) ==
    [url |-> url, name |-> name, is_bunkr |-> bunkr, retries |-> n, path |-> path]

\* The state of a task: where its thread is, the attempt it is in, and the
\* counts of what it has done so far.
\* file_size and downloaded_size are the locals of the last download() that
\* wrote a body to its end (0 before).
TaskState(pc, attempt, attempts, fails, sleeps, marks, final_logs, corrupt_logs, outcome, file_size, downloaded_size) ==
    [pc |-> pc, attempt |-> attempt, attempts |-> attempts, fails |-> fails, sleeps |-> sleeps,
     marks |-> marks, final_logs |-> final_logs, corrupt_logs |-> corrupt_logs,
     outcome |-> outcome, file_size |-> file_size, downloaded_size |-> downloaded_size]

Queued == TaskState("queued", 0, 0, 0, 0, 0, 0, 0, "none", 0, 0)

\* What one call of process_url printed, the lines it added to url_list.txt and
\* the exception that left it.
NoReport ==
    [http_error |-> 0, skipped |-> 0, exported |-> 0, completed |-> 0, lines |-> <<>>,
     error |-> ""]

\* The resolver outcomes the network can produce for one item.
Resolutions(bunkr, cdn, url) ==
    IF bunkr
    THEN {BunkrURLHandler(cdn, url, pg, net) :
              pg \in BunkrPages(BunkrNormalize(url)), net \in [1..Len(cdn) -> ProbeReplies]}
    ELSE {CyberdropURLHandler(url, api) : api \in ApiReplies(url, item_idx)}

\* ------------------------------------------------------------------- Init
\* A fresh download tree and the first run of main, about to process the
\* first URL of the input file.
FreshCall ==
    /\ is_bunkr = FALSE
    /\ direct_link = FALSE
    /\ download_path = ""
    /\ already_downloaded = <<>>
    /\ items = <<>>
    /\ item_idx = 0
    /\ download_tasks = <<>>
    /\ max_workers = 0
    /\ resolved = <<>>

InitWith(retry_args, cap) ==
    /\ prepared = {}
    /\ ledger = [d \in Dirs |-> <<>>]
    /\ url_list = [d \in Dirs |-> <<>>]
    /\ disk = {}
    /\ run = 1
    /\ retries \in retry_args
    /\ extensions \in ExtensionArgs
    /\ only_export \in BOOLEAN
    /\ cdn_list = CdnHosts
    /\ item_cap = cap
    /\ phase = "idle"
    /\ idx = 1
    /\ FreshCall
    /\ ts = <<>>
    /\ file_lock = 0
    /\ complete = {}
    /\ landed = {}
    /\ probed = {}
    /\ fetched = {}
    /\ report = NoReport
    /\ call = <<>>
    /\ result = <<>>

Init == InitWith(0..MaxRetries, MaxItems)

\* One item a page, and a retry loop of up to RetryDepth attempts.
InitRetry == InitWith(1..RetryDepth, 1)

\* ---------------------------------------------------------------- actions
\* process_url returns to main's loop (main.py:52-62), its locals are gone.
DropLocals ==
    /\ is_bunkr' = FALSE
    /\ direct_link' = FALSE
    /\ download_path' = ""
    /\ already_downloaded' = <<>>
    /\ items' = <<>>
    /\ item_idx' = 0
    /\ max_workers' = 0
    /\ resolved' = <<>>

\* process_url returns and main leaves its loop.
ReturnAndStop ==
    /\ idx' = idx + 1
    /\ phase' = "exit"
    /\ DropLocals

Return ==
    /\ idx' = idx + 1
    /\ phase' = IF idx + 1 > Len(InputFile) THEN "exit" ELSE "idle"
    /\ DropLocals

\* An exception leaves process_url and main: the process dies.
Crash(printed, error) ==
    /\ phase' = "crashed"
    /\ report' = [printed EXCEPT !.error = error]
    /\ UNCHANGED <<idx, callVars>>

\* utils.get_and_prepare_download_path and get_already_downloaded_url, then
\* the start of the item loop (downloader.py:104-110).
EnterItems(bunkr, direct, album, its) ==
    /\ prepared' = prepared \cup {album}
    /\ is_bunkr' = bunkr
    /\ direct_link' = direct
    /\ download_path' = album
    /\ already_downloaded' = ledger[album]
    /\ items' = its
    /\ item_idx' = 1
    /\ download_tasks' = <<>>
    /\ ts' = <<>>
    /\ max_workers' = 0
    /\ resolved' = <<>>
    /\ phase' = "items"
    /\ report' = NoReport
    /\ UNCHANGED <<idx, ledger, url_list, disk, file_lock>>

\* downloader.py:47-110: fetch the page of the next input URL, classify it,
\* list its items (resolving the page itself when it is a direct link) and
\* prepare the album directory.
FetchPage ==
    /\ phase = "idle"
    /\ \E pg \in GalleryReplies(InputFile[idx], item_cap) :
         IF pg.err
         THEN /\ Crash(NoReport, "RequestException")
              /\ probed' = {}
              /\ UNCHANGED <<fsVars, poolVars>>
         ELSE IF pg.status # 200
         THEN /\ Return
              /\ report' = [NoReport EXCEPT !.http_error = 1]
              /\ probed' = {}
              /\ UNCHANGED <<fsVars, poolVars, download_tasks>>
         ELSE IF pg.bunkr /\ pg.direct
         THEN \E r \in Resolutions(TRUE, cdn_list, InputFile[idx]) :
                /\ probed' = Range(r.probed)
                /\ IF r.kind = "item"
                   THEN EnterItems(TRUE, TRUE, pg.album, <<Item(r.url, None)>>)
                   ELSE /\ Crash(NoReport, IF r.kind = "raise" THEN r.error ELSE "TypeError")
                        /\ UNCHANGED <<fsVars, poolVars>>
         ELSE /\ EnterItems(pg.bunkr, FALSE, pg.album,
                            [i \in 1..Len(pg.hrefs) |->
                                Item(IF pg.bunkr THEN pg.hrefs[i]
                                     ELSE <<"https://", "cyberdrop.me">> \o pg.hrefs[i], None)])
              /\ probed' = {}
    /\ fetched' = {}
    /\ UNCHANGED <<argVars, obsVars>>

\* The item loop without its export branch: a surviving item is enqueued.
KeepAndEnqueue(item) ==
    IF PassesFilter(item.url, ExtensionsList(extensions), already_downloaded)
    THEN /\ download_tasks' =
               Append(download_tasks, Task(item.url, item.name, is_bunkr, retries, download_path))
         /\ UNCHANGED <<url_list, report>>
    ELSE UNCHANGED <<url_list, download_tasks, report>>

\* downloader.py:120-134: filter one resolved item, then export or enqueue it.
Keep(item) ==
    IF PassesFilter(item.url, ExtensionsList(extensions), already_downloaded)
    THEN IF only_export
         THEN /\ url_list' = [url_list EXCEPT ![download_path] = Append(@, item.url)]
              /\ report' = [report EXCEPT !.lines = Append(@, item.url)]
              /\ UNCHANGED download_tasks
         ELSE /\ download_tasks' =
                    Append(download_tasks, Task(item.url, item.name, is_bunkr, retries, download_path))
              /\ UNCHANGED <<url_list, report>>
    ELSE UNCHANGED <<url_list, download_tasks, report>>

\* downloader.py:111-134: one turn of the item loop.
ProcessItem ==
    /\ phase = "items"
    /\ item_idx <= Len(items)
    /\ IF direct_link
       THEN /\ Keep(items[item_idx])
            /\ item_idx' = item_idx + 1
            /\ resolved' = Append(resolved, items[item_idx].url)
            /\ UNCHANGED <<phase, idx, probed, is_bunkr, direct_link, download_path,
                           already_downloaded, items, max_workers>>
       ELSE \E r \in Resolutions(is_bunkr, cdn_list, items[item_idx].url) :
              /\ probed' = probed \cup Range(r.probed)
              /\ CASE r.kind = "raise" ->
                        /\ Crash(report, r.error)
                        /\ UNCHANGED url_list
                   [] r.kind = "none" ->
                        /\ item_idx' = item_idx + 1
                        /\ resolved' = Append(resolved, None)
                        /\ report' = [report EXCEPT !.skipped = @ + 1]
                        /\ UNCHANGED <<phase, idx, url_list, is_bunkr, direct_link, download_path,
                                       already_downloaded, items, download_tasks, max_workers>>
                   [] r.kind = "item" ->
                        /\ Keep(Item(r.url, r.name))
                        /\ item_idx' = item_idx + 1
                        /\ resolved' = Append(resolved, r.url)
                        /\ UNCHANGED <<phase, idx, is_bunkr, direct_link, download_path,
                                       already_downloaded, items, max_workers>>
    /\ UNCHANGED <<prepared, ledger, disk, argVars, poolVars, obsVars, fetched>>

\* downloader.py:136-149 and 156: after the loop, report the export, or hand
\* the batch to a pool of min(10, N) workers, or report completion at once.
AfterItems ==
    /\ phase = "items"
    /\ item_idx > Len(items)
    /\ IF only_export
       THEN /\ report' = [report EXCEPT !.exported = @ + 1]
            /\ Return
            /\ UNCHANGED <<download_tasks, ts>>
       ELSE IF download_tasks # <<>>
       THEN /\ max_workers' = Min(PoolCap, Len(download_tasks))
            /\ ts' = [i \in 1..Len(download_tasks) |-> Queued]
            /\ phase' = "pool"
            /\ UNCHANGED <<idx, report, is_bunkr, direct_link, download_path, already_downloaded,
                           items, item_idx, download_tasks, resolved>>
       ELSE /\ report' = [report EXCEPT !.completed = @ + 1]
            /\ Return
            /\ UNCHANGED <<download_tasks, ts>>
    /\ UNCHANGED <<fsVars, argVars, file_lock, obsVars, probed, fetched>>

\* ------------------------------------------------------- the worker pool
Active(t) == {i \in 1..Len(t) : t[i].pc \in {"run", "mark", "locked"}}

Failures == {"exhausted", "status", "maintenance", "mismatch", "unexpected"}

\* A join that gives up at the first failed task.
SettledOrFailed(t) ==
    \/ \A i \in 1..Len(t) : t[i].pc = "done"
    \/ \E i \in 1..Len(t) : t[i].outcome \in Failures

\* A pool that is not joined.
NotJoined(t) == TRUE

\* the with-block of ThreadPoolExecutor ends (downloader.py:143-155).
AllSettled(t) == \A i \in 1..Len(t) : t[i].pc = "done"

\* open(final_path, "wb") and the writes: the file holds what this task wrote.
DiskWrite(d, dir, name, size) ==
    {f \in d : ~(f.dir = dir /\ f.name = name)} \cup {[dir |-> dir, name |-> name, size |-> size]}

\* A worker thread takes a submitted task and enters the retry loop
\* (downloader.py:174-179).
TaskStart(i) ==
    /\ i \in 1..Len(ts)
    /\ ts[i].pc = "queued"
    /\ Cardinality(Active(ts)) < max_workers
    /\ ts' = [ts EXCEPT ![i] =
                IF HasAttempt(1, download_tasks[i].retries)
                THEN [@ EXCEPT !.pc = "run", !.attempt = 1]
                ELSE [@ EXCEPT !.pc = "done"]]
    /\ UNCHANGED <<fsVars, argVars, phase, idx, callVars, file_lock, obsVars, probed, fetched,
                   report>>

\* The except clause for requests.RequestException (downloader.py:184-188)
\* and the step of the for loop to the next attempt.
TransportFailure(st, n) ==
    [st EXCEPT !.attempts = @ + 1,
               !.fails = @ + 1,
               !.sleeps = IF SleepsAfter(st.attempt, n) THEN @ + 1 ELSE @,
               !.final_logs = IF SleepsAfter(st.attempt, n) THEN @ ELSE @ + 1,
               !.attempt = IF HasAttempt(st.attempt + 1, n) THEN @ + 1 ELSE @,
               !.pc = IF HasAttempt(st.attempt + 1, n) THEN "run" ELSE "done",
               !.outcome = IF HasAttempt(st.attempt + 1, n) THEN "none" ELSE "exhausted"]

\* A backoff sleep before the loop is left.
StoppedAfterSleep(st, why) ==
    [st EXCEPT !.attempts = @ + 1, !.sleeps = @ + 1, !.pc = "done", !.outcome = why]

\* The attempt ends the loop without a ledger entry (downloader.py:183, 189-191).
Stopped(st, why) == [st EXCEPT !.attempts = @ + 1, !.pc = "done", !.outcome = why]

\* One attempt of the retry loop: download() up to its ledger append, and the
\* handling of what it raised (downloader.py:179-191, 211-245).
Attempt(i) ==
    /\ i \in 1..Len(ts)
    /\ ts[i].pc = "run"
    /\ LET task == download_tasks[i]
           name == FileName(task)
       IN  \E rep \in Served(task.url) :
             /\ fetched' = fetched \cup {task.url}
             /\ CASE rep.err = "connect" ->
                       /\ ts' = [ts EXCEPT ![i] = TransportFailure(@, task.retries)]
                       /\ UNCHANGED <<disk, obsVars>>
                  [] rep.err # "connect" /\ rep.status # 200 ->
                       /\ ts' = [ts EXCEPT ![i] = Stopped(@, "status")]
                       /\ UNCHANGED <<disk, obsVars>>
                  [] rep.err # "connect" /\ rep.status = 200 /\ rep.maintenance ->
                       /\ ts' = [ts EXCEPT ![i] = Stopped(@, "maintenance")]
                       /\ UNCHANGED <<disk, obsVars>>
                  [] rep.err = "os" /\ rep.status = 200 /\ ~rep.maintenance ->
                       /\ ts' = [ts EXCEPT ![i] = Stopped(@, "unexpected")]
                       /\ UNCHANGED <<disk, obsVars>>
                  [] rep.err = "stream" /\ rep.status = 200 /\ ~rep.maintenance ->
                       /\ ts' = [ts EXCEPT ![i] = TransportFailure(@, task.retries)]
                       /\ disk' = DiskWrite(disk, task.path, name, rep.size)
                       /\ UNCHANGED obsVars
                  [] rep.err = "none" /\ rep.status = 200 /\ ~rep.maintenance ->
                       /\ disk' = DiskWrite(disk, task.path, name, rep.size)
                       /\ complete' = IF rep.size = FullSize
                                      THEN complete \cup {[dir |-> task.path, url |-> task.url]}
                                      ELSE complete
                       /\ landed' = IF task.is_bunkr /\ rep.clen > 0 /\ rep.size # rep.clen
                                    THEN landed
                                    ELSE landed \cup {[dir |-> task.path, url |-> task.url]}
                       /\ ts' = [ts EXCEPT ![i] =
                                   LET st == [@ EXCEPT !.file_size = rep.clen,
                                                       !.downloaded_size = rep.size]
                                   IN  IF SizeAccepted(task.is_bunkr, rep.clen, rep.size)
                                       THEN [st EXCEPT !.attempts = @ + 1, !.pc = "mark"]
                                       ELSE [Stopped(st, "mismatch") EXCEPT !.corrupt_logs = @ + 1]]
    /\ UNCHANGED <<prepared, ledger, url_list, argVars, phase, idx, callVars, file_lock, probed,
                   report>>

\* mark_as_downloaded that enters without waiting for file_lock.
MarkAcquireNoWait(i) ==
    /\ i \in 1..Len(ts)
    /\ ts[i].pc = "mark"
    /\ file_lock' = i
    /\ ts' = [ts EXCEPT ![i].pc = "locked"]
    /\ UNCHANGED <<fsVars, argVars, phase, idx, callVars, obsVars, probed, fetched, report>>

\* utils.mark_as_downloaded: take file_lock (utils.py:133).
MarkAcquire(i) ==
    /\ i \in 1..Len(ts)
    /\ ts[i].pc = "mark"
    /\ file_lock = 0
    /\ file_lock' = i
    /\ ts' = [ts EXCEPT ![i].pc = "locked"]
    /\ UNCHANGED <<fsVars, argVars, phase, idx, callVars, obsVars, probed, fetched, report>>

\* utils.mark_as_downloaded: append the line and release the lock
\* (utils.py:134-135); download returns and the loop breaks.
MarkAppend(i) ==
    /\ i \in 1..Len(ts)
    /\ ts[i].pc = "locked"
    /\ ledger' = [ledger EXCEPT ![download_tasks[i].path] = Append(@, download_tasks[i].url)]
    /\ file_lock' = 0
    /\ ts' = [ts EXCEPT ![i] = [@ EXCEPT !.pc = "done", !.marks = @ + 1, !.outcome = "ok"]]
    /\ UNCHANGED <<prepared, url_list, disk, argVars, phase, idx, callVars, obsVars, probed,
                   fetched, report>>

\* The pool is joined and process_url reports completion (downloader.py:150-156).
PoolJoin ==
    /\ phase = "pool"
    /\ AllSettled(ts)
    /\ report' = [report EXCEPT !.completed = @ + 1]
    /\ Return
    /\ UNCHANGED <<fsVars, argVars, download_tasks, poolVars, obsVars, probed, fetched>>

\* main is started again over the same download tree.
StartRun ==
    /\ phase \in {"exit", "crashed"}
    /\ run < MaxRuns
    /\ run' = run + 1
    /\ only_export' \in BOOLEAN
    /\ phase' = "idle"
    /\ idx' = 1
    /\ DropLocals
    /\ download_tasks' = <<>>
    /\ ts' = <<>>
    /\ file_lock' = 0
    /\ probed' = {}
    /\ fetched' = {}
    /\ report' = NoReport
    /\ UNCHANGED <<fsVars, retries, extensions, cdn_list, item_cap, helperVars, obsVars>>

Next ==
    \/ FetchPage
    \/ ProcessItem
    \/ AfterItems
    \/ \E i \in 1..MaxItems : TaskStart(i)
    \/ \E i \in 1..MaxItems : Attempt(i)
    \/ \E i \in 1..MaxItems : MarkAcquire(i)
    \/ \E i \in 1..MaxItems : MarkAppend(i)
    \/ PoolJoin
    \/ StartRun

Spec == Init /\ [][Next]_vars

\* ------------------------------------------------- get_cdn_file_url alone
HostPool == <<"c1", "c2", "c3", "c4", "c5">>
ProbeTargets == {<<"https://", "bunkr.sk", "/", "d", "/", "a", ".", "jpg">>, UrlA}
ProbeNames == {None, <<"f", ".", "jpg">>}

\* The pipeline at rest, and one call of get_cdn_file_url about to be made.
InitCdn ==
    /\ prepared = {}
    /\ ledger = [d \in Dirs |-> <<>>]
    /\ url_list = [d \in Dirs |-> <<>>]
    /\ disk = {}
    /\ run = 1
    /\ retries = 1
    /\ extensions = <<>>
    /\ only_export = FALSE
    /\ item_cap = 0
    /\ phase = "exit"
    /\ idx = 1
    /\ FreshCall
    /\ ts = <<>>
    /\ file_lock = 0
    /\ complete = {}
    /\ landed = {}
    /\ probed = {}
    /\ fetched = {}
    /\ report = NoReport
    /\ \E n \in 0..MaxHosts :
         /\ cdn_list = SubSeq(HostPool, 1, n)
         /\ \E net \in [1..n -> ProbeReplies], u \in ProbeTargets, f \in ProbeNames :
              call = [fn |-> "get_cdn_file_url", cdn_list |-> cdn_list, gallery_url |-> u,
                      file_name |-> f, net |-> net]
    /\ result = [done |-> FALSE, url |-> None, probed |-> <<>>]

CdnProbe ==
    /\ ~result.done
    /\ LET r == get_cdn_file_url(call.cdn_list, call.gallery_url, call.file_name, call.net)
       IN  result' = [done |-> TRUE, url |-> r.url, probed |-> r.probed]
    /\ UNCHANGED <<fsVars, run, retries, extensions, only_export, cdn_list, item_cap, call, phase,
                   idx, callVars, poolVars, obsVars, probed, fetched, report>>

NextCdn == CdnProbe

SpecCdn == InitCdn /\ [][NextCdn]_vars

\* ------------------------------------------------- the helpers called alone
\* The pipeline at rest while one helper is called on its own.
AtRest ==
    /\ prepared = {}
    /\ ledger = [d \in Dirs |-> <<>>]
    /\ url_list = [d \in Dirs |-> <<>>]
    /\ disk = {}
    /\ run = 1
    /\ retries = 1
    /\ extensions = <<>>
    /\ only_export = FALSE
    /\ item_cap = 0
    /\ phase = "exit"
    /\ idx = 1
    /\ FreshCall
    /\ ts = <<>>
    /\ file_lock = 0
    /\ complete = {}
    /\ landed = {}
    /\ probed = {}
    /\ fetched = {}
    /\ report = NoReport

restVars == <<fsVars, run, retries, extensions, only_export, cdn_list, item_cap, call, phase, idx,
              callVars, poolVars, obsVars, probed, fetched, report>>

\* ---------------------------- BunkrURLHandler.get_real_download_url alone
MaxElems == 3

\* The elements an item page can hold.
PageElements ==
    {Element("source", None), Element("source", <<"https://", "media", "/", "A">>),
     Element("media-player", <<"https://", "media", "/", "P">>),
     Element("img", None), Element("img", <<"https://", "media", "/", "B">>),
     Element("h1", None)}

Docs == UNION {[1..n -> PageElements] : n \in 0..MaxElems}

InitBunkr ==
    /\ AtRest
    /\ cdn_list = CdnHosts
    /\ \E st \in {200, 404}, doc \in Docs, net \in [1..Len(CdnHosts) -> {Reply(FALSE, 200), Reply(FALSE, 404)}] :
         call = [fn |-> "BunkrURLHandler", url |-> <<"/", "d", "/", "a", ".", "jpg">>,
                 status |-> st, doc |-> doc, net |-> net]
    /\ result = [done |-> FALSE, kind |-> "none", url |-> None, probed |-> <<>>]

BunkrResolve ==
    /\ ~result.done
    /\ LET r == BunkrURLHandler(cdn_list, call.url, ParsePage(call.status, call.doc), call.net)
       IN  result' = [done |-> TRUE, kind |-> r.kind, url |-> r.url, probed |-> r.probed]
    /\ UNCHANGED restVars

NextBunkr == BunkrResolve

SpecBunkr == InitBunkr /\ [][NextBunkr]_vars

\* -------------------------------------------- remove_illegal_chars alone
\* "My/Album:Name"
SampleTitle == <<77, 121, 47, 65, 108, 98, 117, 109, 58, 78, 97, 109, 101>>

\* The code points titles are made of: NUL, TAB, LF, 0x19, 0x1a, 0x1f, space,
\* the quote, '-', '/', ':', 'M', the backslash and the no-break space.
TitleChars == {0, 9, 10, 25, 26, 31, 32, 39, 45, 47, 58, 77, 92, 160}

Titles == {SampleTitle} \cup UNION {[1..n -> TitleChars] : n \in 0..MaxTitle}

InitSanitize ==
    /\ AtRest
    /\ cdn_list = <<>>
    /\ \E t \in Titles : call = [fn |-> "remove_illegal_chars", string |-> t]
    /\ result = [done |-> FALSE, value |-> <<>>]

Sanitize ==
    /\ ~result.done
    /\ result' = [done |-> TRUE, value |-> remove_illegal_chars(call.string)]
    /\ UNCHANGED restVars

NextSanitize == Sanitize

SpecSanitize == InitSanitize /\ [][NextSanitize]_vars

\* ------------------------------------------------ the start of main
\* The status page: the text of its <p class="flex-1"> elements in page order
\* is a prefix of one of these.
StatusTexts ==
    {<<"Status", "Web", "API", "Dash", "Mail", "CDN1", "Cdn2", "cdn3", "CDN4">>,
     <<"Status", "Web", "API", "Dash", "Mail", "Cdn2", "CDN1", "CDN4", "cdn3">>}

\* f"{cdn.text.lower()}.bunkr.ru"
HostName(text) ==
    CASE text = "Status" -> "status.bunkr.ru"
      [] text = "Web" -> "web.bunkr.ru"
      [] text = "API" -> "api.bunkr.ru"
      [] text = "Dash" -> "dash.bunkr.ru"
      [] text = "Mail" -> "mail.bunkr.ru"
      [] text = "CDN1" -> "cdn1.bunkr.ru"
      [] text = "Cdn2" -> "cdn2.bunkr.ru"
      [] text = "cdn3" -> "cdn3.bunkr.ru"
      [] text = "CDN4" -> "cdn4.bunkr.ru"

\* The reply to the GET of the status page.
StatusReply(err, status, entries) == [err |-> err, status |-> status, entries |-> entries]

StatusReplies ==
    {StatusReply(TRUE, 0, <<>>), StatusReply(FALSE, 503, <<>>)}
    \cup {StatusReply(FALSE, 200, SubSeq(t, 1, n)) : t \in StatusTexts, n \in 0..MaxEntries}

\* The list made of every entry after the first four.
get_cdn_list_skip_four(reply) ==
    IF reply.status # 200 THEN None
    ELSE [k \in 1..(IF Len(reply.entries) > 4 THEN Len(reply.entries) - 4 ELSE 0) |->
              HostName(reply.entries[k + 4])]

\* network.get_cdn_list once the page is there: enumerate(cdn_elements[1:],
\* start=1) numbers the entries after the first from 1, and those with a
\* number above 4 are kept.
get_cdn_list(reply) ==
    IF reply.status # 200 THEN None
    ELSE LET rest == IF reply.entries = <<>> THEN <<>> ELSE Tail(reply.entries)
             kept == {i \in 1..Len(rest) : i > 4}
         IN  [k \in 1..Cardinality(kept) |-> HostName(rest[k + 4])]

\* main is started on a fresh download tree; the status page is still to be
\* fetched.
InitStart ==
    /\ prepared = {}
    /\ ledger = [d \in Dirs |-> <<>>]
    /\ url_list = [d \in Dirs |-> <<>>]
    /\ disk = {}
    /\ run = 1
    /\ retries = 1
    /\ extensions = <<>>
    /\ only_export = FALSE
    /\ cdn_list = None
    /\ item_cap = 1
    /\ phase = "start"
    /\ idx = 1
    /\ FreshCall
    /\ ts = <<>>
    /\ file_lock = 0
    /\ complete = {}
    /\ landed = {}
    /\ probed = {}
    /\ fetched = {}
    /\ report = NoReport
    /\ \E reply \in StatusReplies : call = [fn |-> "get_cdn_list", reply |-> reply]
    /\ result = <<>>

\* main.py:43-44: the session is created and the CDN list is fetched; a
\* transport error leaves get_cdn_list and main.
Startup ==
    /\ phase = "start"
    /\ IF call.reply.err
       THEN /\ phase' = "crashed"
            /\ report' = [NoReport EXCEPT !.error = "RequestException"]
            /\ UNCHANGED cdn_list
       ELSE /\ phase' = "idle"
            /\ cdn_list' = get_cdn_list(call.reply)
            /\ UNCHANGED report
    /\ UNCHANGED <<fsVars, run, retries, extensions, only_export, item_cap, helperVars, idx,
                   callVars, poolVars, obsVars, probed, fetched>>

NextStart ==
    \/ Startup
    \/ FetchPage
    \/ ProcessItem
    \/ AfterItems
    \/ \E i \in 1..MaxItems : TaskStart(i)
    \/ \E i \in 1..MaxItems : Attempt(i)
    \/ \E i \in 1..MaxItems : MarkAcquire(i)
    \/ \E i \in 1..MaxItems : MarkAppend(i)
    \/ PoolJoin

SpecStart == InitStart /\ [][NextStart]_vars

\* ------------------------------------------------------ one batch alone
\* process_url has left its item loop with a batch of n tasks: up to MaxItems
\* tasks of a file that is served, or up to MaxBatch tasks of files on a host
\* that is down.
InitPool ==
    /\ prepared = {"x"}
    /\ ledger = [d \in Dirs |-> <<>>]
    /\ url_list = [d \in Dirs |-> <<>>]
    /\ disk = {}
    /\ run = 1
    /\ retries = 1
    /\ extensions = <<>>
    /\ only_export = FALSE
    /\ cdn_list = CdnHosts
    /\ item_cap = 0
    /\ phase = "items"
    /\ idx = Len(InputFile)
    /\ is_bunkr = TRUE
    /\ direct_link = FALSE
    /\ download_path = "x"
    /\ already_downloaded = <<>>
    /\ \E n \in 1..MaxBatch, u \in {DownUrl, MediaUrl(UrlA)} :
         /\ u = DownUrl \/ n <= MaxItems
         /\ items = [i \in 1..n |-> Item(<<"/", "d", "/", "a", ".", "jpg">>, None)]
         /\ item_idx = n + 1
         /\ download_tasks = [i \in 1..n |-> Task(u, None, TRUE, 1, "x")]
         /\ resolved = [i \in 1..n |-> u]
    /\ max_workers = 0
    /\ ts = <<>>
    /\ file_lock = 0
    /\ complete = {}
    /\ landed = {}
    /\ probed = {}
    /\ fetched = {}
    /\ report = NoReport
    /\ call = <<>>
    /\ result = <<>>

NextPool ==
    \/ AfterItems
    \/ \E i \in 1..MaxBatch : TaskStart(i)
    \/ \E i \in 1..MaxBatch : Attempt(i)
    \/ \E i \in 1..MaxBatch : MarkAcquire(i)
    \/ \E i \in 1..MaxBatch : MarkAppend(i)
    \/ PoolJoin

SpecPool == InitPool /\ [][NextPool]_vars

SpecRetry == InitRetry /\ [][Next]_vars

\* The same runs when every step that can be taken is taken in the end: every
\* HTTP call returns or times out, every sleep ends, and the threads of the
\* pool are scheduled.
SpecLive == InitRetry /\ [][Next]_vars /\ WF_vars(Next)

\* ================================================================= claims
Count(s, x) == Cardinality({k \in 1..Len(s) : s[k] = x})
Entry(d, u) == [dir |-> d, url |-> u]
Pending(d, u) ==
    \E i \in 1..Len(ts) :
        /\ ts[i].pc \in {"mark", "locked"}
        /\ download_tasks[i].path = d
        /\ download_tasks[i].url = u
Known(d) == Range(ledger[d]) \cup {e.url : e \in {f \in complete \cup landed : f.dir = d}}

\* C1 as stated: whenever no batch is in flight, a URL is in a directory's
\* ledger iff some download wrote its whole file there, in this or a prior run.
C1_LedgerIffWholeFile ==
    phase # "pool" =>
        \A d \in Dirs : \A u \in Known(d) : u \in Range(ledger[d]) <=> Entry(d, u) \in complete

\* C1 amended: a URL is in a directory's ledger only if some download wrote
\* its body to the end without an error and without failing the size check that
\* bunkr downloads with a declared content-length undergo; and every such
\* download has its entry, or its task is about to append it.
C1_LedgerIffLanded ==
    \A d \in Dirs : \A u \in Known(d) :
        /\ u \in Range(ledger[d]) => Entry(d, u) \in landed
        /\ Entry(d, u) \in landed => u \in Range(ledger[d]) \/ Pending(d, u)

\* A second run over a ledger that lists a truncated file, with a bunkr task
\* that failed the size check and left no entry.
C1_Witness ==
    /\ run = 2
    /\ \E d \in Dirs : \E u \in Range(ledger[d]) : Entry(d, u) \notin complete
    /\ \E i \in 1..Len(ts) :
         /\ ts[i].outcome = "mismatch"
         /\ download_tasks[i].url \notin Range(ledger[download_tasks[i].path])

\* C2: once a task of a batch has failed, every other task of the batch is
\* either still running inside the pool or has ended with an outcome of its
\* own attempts, and one whose body was written and accepted is in the ledger.
C2_FailureIsolated ==
    \A i \in 1..Len(ts) : ts[i].outcome \in Failures =>
        \A j \in (1..Len(ts)) \ {i} :
            /\ ts[j].pc # "done" => phase = "pool"
            /\ ts[j].pc = "done" => ts[j].attempts >= 1 /\ ts[j].outcome # "none"
            /\ ts[j].pc = "done" /\ ts[j].downloaded_size > 0 /\ ts[j].outcome # "mismatch" =>
                 /\ ts[j].outcome = "ok"
                 /\ ts[j].marks = 1
                 /\ download_tasks[j].url \in Range(ledger[download_tasks[j].path])

\* A joined batch whose first task used up its attempts and whose second task
\* is in the ledger.
C2_Witness ==
    /\ phase # "pool"
    /\ Len(ts) = 2
    /\ ts[1].outcome = "exhausted"
    /\ ts[2].outcome = "ok"
    /\ download_tasks[2].url \in Range(ledger[download_tasks[2].path])

\* C3 as stated: a transport error in the fetch of a gallery page or in a
\* resolver never leaves process_url, so the run goes on.
C3_TransportErrorSkipped == ~(phase = "crashed" /\ report.error = "RequestException")

\* C4 as stated: over the runs no file is downloaded more than once into an
\* album directory, so no URL is recorded twice.
C4_DownloadedOnce == \A d \in Dirs : \A u \in Range(ledger[d]) : Count(ledger[d], u) = 1

\* C5 as stated: a URL of the ledger snapshot is not exported and not enqueued
\* by this call, and no request at all goes to it.
C5_NoRequestAtAll ==
    \A u \in Range(already_downloaded) :
        /\ u \notin Range(report.lines)
        /\ \A i \in 1..Len(download_tasks) : download_tasks[i].url # u
        /\ u \notin fetched \cup probed

\* C5 amended: a URL of the ledger snapshot is not exported and not enqueued by
\* this call, and download never requests it (only the CDN probe may).
C5_NotDownloadedAgain ==
    \A u \in Range(already_downloaded) :
        /\ u \notin Range(report.lines)
        /\ \A i \in 1..Len(download_tasks) : download_tasks[i].url # u
        /\ u \notin fetched

\* The loop is over: every item was resolved, no extension filter is set and
\* the ledger snapshot is not empty, yet nothing was exported or enqueued.
C5_Witness ==
    /\ phase = "items"
    /\ item_idx > Len(items)
    /\ Len(items) >= 1
    /\ report.skipped = 0
    /\ extensions = <<>>
    /\ already_downloaded # <<>>
    /\ download_tasks = <<>>
    /\ report.lines = <<>>

\* C6: with a non-empty allow-list, every enqueued task and every ledger line
\* has an extension of the list.
C6_ExtensionFilter ==
    LET allowed == Range(ExtensionsList(extensions))
    IN  ExtensionsList(extensions) # <<>> =>
            /\ \A i \in 1..Len(download_tasks) :
                   get_url_data(download_tasks[i].url).extension \in allowed
            /\ \A d \in Dirs : \A u \in Range(ledger[d]) : get_url_data(u).extension \in allowed

\* The loop is over under a non-empty allow-list: every item was resolved and
\* the ledger snapshot is empty, yet nothing was enqueued.
C6_Witness ==
    /\ phase = "items"
    /\ item_idx > Len(items)
    /\ Len(items) >= 1
    /\ report.skipped = 0
    /\ ~only_export
    /\ ExtensionsList(extensions) # <<>>
    /\ already_downloaded = <<>>
    /\ download_tasks = <<>>

\* C7: a finished task whose attempts before the last all failed with a
\* transport error: if the last one succeeded it made fails + 1 attempts, fails
\* sleeps and one ledger entry; if all n failed it made n attempts, n - 1
\* sleeps, no ledger entry and one final log line.
C7_RetryCounts ==
    \A i \in 1..Len(ts) :
        LET n == download_tasks[i].retries
            u == download_tasks[i].url
            d == download_tasks[i].path
        IN  /\ ts[i].outcome = "ok" =>
                 /\ ts[i].attempts = ts[i].fails + 1
                 /\ ts[i].sleeps = ts[i].fails
                 /\ ts[i].attempts <= n
                 /\ ts[i].final_logs = 0
                 /\ ts[i].marks = 1
                 /\ Count(ledger[d], u) = 1
            /\ ts[i].outcome = "exhausted" =>
                 /\ ts[i].fails = n
                 /\ ts[i].attempts = n
                 /\ ts[i].sleeps = n - 1
                 /\ ts[i].final_logs = 1
                 /\ ts[i].marks = 0
                 /\ Count(ledger[d], u) = 0
            /\ ts[i].pc # "done" /\ ts[i].fails = ts[i].attempts =>
                 /\ ts[i].sleeps = ts[i].fails
                 /\ ts[i].final_logs = 0

\* Attempts 1 and 2 of 3 failed, attempt 3 succeeded.
C7_Witness ==
    \E i \in 1..Len(ts) :
        /\ download_tasks[i].retries = 3
        /\ ts[i].outcome = "ok"
        /\ ts[i].fails = 2
        /\ ts[i].sleeps = 2

\* C8: a bunkr task whose response declared a content-length > 0 and whose
\* file has another size ends at once: one corruption line, no ledger entry
\* and no attempt after that one.
C8_SizeMismatch ==
    \A i \in 1..Len(ts) :
        (/\ download_tasks[i].is_bunkr
         /\ ts[i].downloaded_size > 0
         /\ ts[i].file_size > 0
         /\ ts[i].downloaded_size # ts[i].file_size) =>
            /\ ts[i].pc = "done"
            /\ ts[i].outcome = "mismatch"
            /\ ts[i].corrupt_logs = 1
            /\ ts[i].marks = 0
            /\ ts[i].attempts = ts[i].fails + 1
            /\ ts[i].sleeps = ts[i].fails

\* A bunkr task ended by the size check after a retry, its URL not in the ledger.
C8_Witness ==
    \E i \in 1..Len(ts) :
        /\ ts[i].outcome = "mismatch"
        /\ ts[i].fails >= 1
        /\ download_tasks[i].url \notin Range(ledger[download_tasks[i].path])
        /\ phase # "pool"

\* C9: while main is between two input URLs, or fetches or resolves the next
\* one, no task of an earlier batch is unfinished; a running task belongs to
\* the batch of the URL main is at.
C9_BatchOrder ==
    \A i \in 1..Len(ts) :
        ts[i].pc # "done" => phase = "pool" /\ download_tasks[i].path = download_path

\* Both downloads of the first URL are over and main is about to fetch the second.
C9_Witness ==
    /\ phase = "idle"
    /\ idx = 2
    /\ Len(ts) = 2
    /\ \A i \in 1..2 : ts[i].pc = "done" /\ ts[i].attempts >= 1

\* C10: the probe requests the hosts in list order; each host but the last
\* requested one answered 404 or failed; the first host that answers 200 after
\* such hosts only yields the result and is the last one requested; when every
\* host answers 404 or fails nothing is returned.
C10_ProbeOrder ==
    result.done =>
        LET hosts == call.cdn_list
            net == call.net
            m == Len(result.probed)
            usable == call.file_name # None \/ Find(call.gallery_url, <<"/", "d", "/">>) # 0
            Passes(k) == net[k].err \/ net[k].status = 404
            Candidate(k) == CdnCandidate(hosts[k], call.gallery_url, call.file_name)
        IN  /\ m <= Len(hosts)
            /\ \A k \in 1..m : result.probed[k] = Candidate(k)
            /\ \A k \in 1..(m - 1) : Passes(k)
            /\ \A k \in 1..Len(hosts) :
                   (usable /\ (\A j \in 1..(k - 1) : Passes(j)) /\ ~net[k].err
                    /\ net[k].status = 200) =>
                       result.url = Candidate(k) /\ m = k
            /\ (\A k \in 1..Len(hosts) : Passes(k)) =>
                   result.url = None /\ (usable => m = Len(hosts))
            /\ result.url # None => m >= 1 /\ result.url = Candidate(m) /\ ~Passes(m)

\* Three hosts, the first answers 404 and the second 200: the URL of the
\* second is returned and the third is not requested.
C10_Witness ==
    /\ result.done
    /\ Len(call.cdn_list) = 3
    /\ ~call.net[1].err /\ call.net[1].status = 404
    /\ ~call.net[2].err /\ call.net[2].status = 200
    /\ result.url = CdnCandidate(call.cdn_list[2], call.gallery_url, call.file_name)
    /\ Len(result.probed) = 2

\* C11: the first requested host that answers 403, or any status other than
\* 200 and 404, is the last host requested and nothing is returned; a host
\* list that is empty or absent yields nothing and no request.
C11_ProbeHardStop ==
    result.done =>
        LET hosts == call.cdn_list
            net == call.net
            m == Len(result.probed)
            usable == call.file_name # None \/ Find(call.gallery_url, <<"/", "d", "/">>) # 0
            Passes(k) == net[k].err \/ net[k].status = 404
            HardStop(k) == ~net[k].err /\ net[k].status \notin {200, 404}
        IN  /\ hosts = <<>> => result.url = None /\ result.probed = <<>>
            /\ \A k \in 1..m : HardStop(k) => result.url = None /\ m = k
            /\ \A k \in 1..Len(hosts) :
                   (usable /\ (\A j \in 1..(k - 1) : Passes(j)) /\ HardStop(k)) =>
                       result.url = None /\ m = k

\* Three hosts: the first fails to connect, the second answers 403 and the
\* third would answer 200; nothing is returned and the third is not requested.
C11_Witness ==
    /\ result.done
    /\ Len(call.cdn_list) = 3
    /\ call.net[1].err
    /\ ~call.net[2].err /\ call.net[2].status = 403
    /\ ~call.net[3].err /\ call.net[3].status = 200
    /\ result.url = None
    /\ Len(result.probed) = 2

\* C12 as stated: on a page fetched with 200 the resolver returns a <source>
\* src if the page holds one, else a media-player src if it holds one, else a
\* styled <img> src if it holds one; with none of them it returns what the CDN
\* probe returns when a truncated heading exists, and nothing otherwise;
\* wherever the elements stand in the document.
C12_PriorityByPresence ==
    (result.done /\ call.status = 200) =>
        LET Srcs(tag) == Range(SrcsOf(call.doc, tag)) \ {None}
            cdn == get_cdn_file_url(cdn_list, BunkrNormalize(call.url), None, call.net)
        IN  IF Srcs("source") # {} THEN result.kind = "item" /\ result.url \in Srcs("source")
            ELSE IF Srcs("media-player") # {}
            THEN result.kind = "item" /\ result.url \in Srcs("media-player")
            ELSE IF Srcs("img") # {} THEN result.kind = "item" /\ result.url \in Srcs("img")
            ELSE IF SrcsOf(call.doc, "h1") # <<>>
            THEN /\ result.url = cdn.url
                 /\ result.probed = cdn.probed
                 /\ result.kind = IF cdn.url # None THEN "item" ELSE "none"
            ELSE result.kind = "none" /\ result.url = None /\ result.probed = <<>>

\* C13: in a batch of N >= 1 tasks at most min(10, N) downloads execute at the
\* same time, and completion is not reported and process_url does not go on
\* while one of the N submitted tasks is unfinished.
C13_BoundedPool ==
    LET N == Len(download_tasks)
    IN  /\ Len(ts) >= 1 =>
              /\ N >= 1
              /\ Len(ts) = N
              /\ Cardinality(Active(ts)) <= (IF N < 10 THEN N ELSE 10)
        /\ (report.completed >= 1 \/ phase # "pool") => \A i \in 1..Len(ts) : ts[i].pc = "done"

\* A batch of more than ten tasks: ten downloads execute and one task waits
\* for a free worker.
C13_Witness ==
    /\ phase = "pool"
    /\ Len(download_tasks) > PoolCap
    /\ Cardinality(Active(ts)) = PoolCap
    /\ \E i \in 1..Len(ts) : ts[i].pc = "queued"

\* C14: at most one task is inside a ledger append and it is the holder of
\* file_lock; the main thread reads and appends the ledger and the export list
\* only while no batch runs, when the lock is free; and while a batch runs the
\* ledger of its directory is the snapshot read before the batch followed by
\* exactly one line per task that has completed its append, a task that ended
\* having appended iff it succeeded.
C14_LedgerExclusive ==
    LET inside == {i \in 1..Len(ts) : ts[i].pc = "locked"}
        marked == {i \in 1..Len(ts) : ts[i].marks = 1}
    IN  /\ Cardinality(inside) <= 1
        /\ \A i \in 1..Len(ts) : ts[i].pc = "locked" <=> file_lock = i
        /\ phase # "pool" => file_lock = 0 /\ inside = {}
        /\ \A i \in 1..Len(ts) :
               /\ ts[i].marks <= 1
               /\ ts[i].pc = "done" => (ts[i].marks = 1 <=> ts[i].outcome = "ok")
        /\ phase = "pool" =>
               LET before == already_downloaded
                   now == ledger[download_path]
               IN  /\ Len(now) = Len(before) + Cardinality(marked)
                   /\ SubSeq(now, 1, Len(before)) = before
                   /\ \A u \in Range(now) :
                          Count(now, u) =
                              Count(before, u)
                              + Cardinality({i \in marked : download_tasks[i].url = u})

\* Two tasks of a batch completed their downloads together: one is inside the
\* ledger append and the other waits for the lock, over a ledger that already
\* held a line.
C14_Witness ==
    /\ phase = "pool"
    /\ already_downloaded # <<>>
    /\ \E i, j \in 1..Len(ts) : ts[i].pc = "locked" /\ ts[j].pc = "mark"

\* The URLs of seq that the item loop keeps: resolved and through both filters.
RECURSIVE Surviving(_)
Surviving(seq) ==
    IF seq = <<>> THEN <<>>
    ELSE (IF Head(seq) # None
             /\ PassesFilter(Head(seq), ExtensionsList(extensions), already_downloaded)
          THEN <<Head(seq)>> ELSE <<>>) \o Surviving(Tail(seq))

\* C15: in an export-only run no task is created or run, no request for a
\* file is made, no step changes a ledger or a media file, and completion of
\* downloads is not reported; during the item loop the lines written so far are
\* the URLs of the surviving items in item order, each step that changes
\* url_list.txt appends exactly that one line to the list of the album, and
\* the export is reported once, by the step that follows the last item.
C15_ExportOnly ==
    /\ [](only_export =>
            /\ download_tasks = <<>>
            /\ ts = <<>>
            /\ phase # "pool"
            /\ fetched = {}
            /\ report.completed = 0
            /\ report.exported <= 1
            /\ phase = "items" => report.exported = 0 /\ report.lines = Surviving(resolved))
    /\ [][only_export =>
            /\ ledger' = ledger
            /\ disk' = disk
            /\ url_list' # url_list =>
                   /\ phase = "items"
                   /\ Surviving(resolved') = Append(Surviving(resolved), resolved'[Len(resolved')])
                   /\ url_list' = [url_list EXCEPT
                                      ![download_path] = Append(@, resolved'[Len(resolved')])]
            /\ (phase = "items" /\ phase' = "items"
                /\ Surviving(resolved') # Surviving(resolved)) => url_list' # url_list
            /\ report'.exported > report.exported =>
                   /\ phase = "items"
                   /\ item_idx > Len(items)
                   /\ Len(resolved) = Len(items)
                   /\ report'.lines = Surviving(resolved)
            /\ (phase = "items" /\ phase' # "items" /\ phase' # "crashed") =>
                   report'.exported = 1]_vars

\* An export-only second run over a ledger with a line: the export of an album
\* whose two items both survived has been reported, and nothing was enqueued.
C15_Witness ==
    /\ only_export
    /\ run = 2
    /\ \E d \in Dirs : ledger[d] # <<>>
    /\ report.exported = 1
    /\ Len(report.lines) = 2
    /\ download_tasks = <<>>
    /\ \E d \in Dirs :
         /\ Len(url_list[d]) >= 2
         /\ SubSeq(url_list[d], Len(url_list[d]) - 1, Len(url_list[d])) = report.lines

\* C16: the sanitized title is the title with each of < > : " / \ | ? * ' and
\* each control byte 0 to 0x19 replaced by '-' and every other character kept,
\* less the whitespace that then surrounds it; My/Album:Name gives My-Album-Name.
C16_Sanitized ==
    result.done =>
        LET s == call.string
            r == result.value
            illegal == {60, 62, 58, 34, 47, 92, 124, 63, 42, 39} \cup 0..25
            m == [i \in 1..Len(s) |-> IF s[i] \in illegal THEN 45 ELSE s[i]]
        IN  /\ \E a \in 1..(Len(s) + 1), b \in 0..Len(s) :
                   /\ r = SubSeq(m, a, b)
                   /\ \A i \in 1..(a - 1) : m[i] \in Whitespace
                   /\ \A i \in (b + 1)..Len(s) : m[i] \in Whitespace
            /\ r # <<>> => r[1] \notin Whitespace /\ r[Len(r)] \notin Whitespace
            /\ s = SampleTitle =>
                   r = <<77, 121, 45, 65, 108, 98, 117, 109, 45, 78, 97, 109, 101>>

\* A title that starts with a space and ends with a line feed: the line feed is
\* replaced and stays, the space is trimmed.
C16_Witness ==
    /\ result.done
    /\ call.string = <<32, 77, 10>>
    /\ result.value = <<77, 45>>

\* C17: a task whose attempt ended with a status other than 200, with the
\* maintenance redirect or with an exception that is no transport error is
\* over: that attempt was its last whatever number remained, no sleep followed
\* it (each sleep so far followed a transport error), it logged no exhaustion
\* and appended no ledger line, so the ledger holds its URL only as often as
\* other tasks of the batch appended it.
C17_NonNetworkStops ==
    \A i \in 1..Len(ts) :
        ts[i].outcome \in {"status", "maintenance", "unexpected"} =>
            /\ ts[i].pc = "done"
            /\ ts[i].attempts = ts[i].fails + 1
            /\ ts[i].attempts <= download_tasks[i].retries
            /\ ts[i].sleeps = ts[i].fails
            /\ ts[i].final_logs = 0
            /\ ts[i].marks = 0
            /\ Count(ledger[download_tasks[i].path], download_tasks[i].url) =
                   Cardinality({j \in 1..Len(ts) :
                                   /\ download_tasks[j].url = download_tasks[i].url
                                   /\ ts[j].marks = 1})

\* A task of three attempts: the first failed to connect, the second got a
\* status other than 200, and the batch is over with the third unused.
C17_Witness ==
    /\ phase # "pool"
    /\ \E i \in 1..Len(ts) :
         /\ download_tasks[i].retries = 3
         /\ ts[i].outcome = "status"
         /\ ts[i].fails = 1
         /\ ts[i].attempts = 2
         /\ download_tasks[i].url \notin Range(ledger[download_tasks[i].path])

\* C18 as stated: a resolver that returns nothing makes process_url skip the
\* item and go on, for a gallery item and for the item of a direct-link page
\* alike; no exception leaves process_url because a resolver returned nothing.
C18_UnresolvedSkipped == ~(phase = "crashed" /\ report.error = "TypeError")

\* C19 as stated: completion is reported at most once a call and only when
\* every submitted task has settled, and every call of a run that is not
\* export-only and whose page fetch returned 200 (it has entered its item loop)
\* reports completion in the end, before main goes on to the next input URL.
C19_CompletionOnce ==
    /\ [](report.completed <= 1 /\ (report.completed = 1 => AllSettled(ts)))
    /\ \A r \in 1..MaxRuns : \A k \in 1..Len(InputFile) :
           (~only_export /\ phase = "items" /\ run = r /\ idx = k)
               ~> (report.completed = 1 /\ run = r /\ idx = k + 1)

\* C20: the step in which process_url finds a status other than 200 for the
\* page of an input URL creates no directory and no ledger, changes no file,
\* resolves no item (no request of a resolver or of the CDN probe), enqueues and
\* starts no task, and hands control back to main, which is then at the next
\* input URL, or at its end after the last one.
C20_PageNot200 ==
    /\ [](report.http_error = 1 =>
            /\ report.error = ""
            /\ report.skipped = 0 /\ report.exported = 0 /\ report.completed = 0
            /\ report.lines = <<>>
            /\ phase \in {"idle", "exit"}
            /\ phase = "idle" <=> idx <= Len(InputFile)
            /\ probed = {} /\ fetched = {} /\ resolved = <<>>)
    /\ [][(phase = "idle" /\ report'.http_error = 1) =>
            /\ prepared' = prepared
            /\ ledger' = ledger
            /\ url_list' = url_list
            /\ disk' = disk
            /\ download_tasks' = download_tasks
            /\ ts' = ts
            /\ idx' = idx + 1
            /\ run' = run]_vars

\* The page of the first input URL answered with a status other than 200:
\* nothing exists on disk and main is at the second URL.
C20_Witness ==
    /\ run = 1
    /\ report.http_error = 1
    /\ phase = "idle"
    /\ idx = 2
    /\ prepared = {}
    /\ download_tasks = <<>>

\* C21 as stated: the list is the host names of the entries after the first
\* four, in page order, and no step after the start of main changes it.
C21_SkipFour ==
    /\ [](phase \notin {"start", "crashed"} /\ call.reply.status = 200 =>
            LET e == call.reply.entries
            IN  /\ Len(cdn_list) = (IF Len(e) > 4 THEN Len(e) - 4 ELSE 0)
                /\ \A k \in 1..Len(cdn_list) : cdn_list[k] = HostName(e[k + 4]))
    /\ [][phase # "start" => cdn_list' = cdn_list]_vars

\* C21 amended: the list is the host names (the text in lower case followed by
\* the suffix) of the entries after the first five, in page order; it is empty
\* when the page has five entries or fewer or answers with another status than
\* 200; and no step after the start of main changes it.
C21_SkipFive ==
    /\ [](phase \notin {"start", "crashed"} =>
            LET e == call.reply.entries
            IN  IF call.reply.status = 200
                THEN /\ Len(cdn_list) = (IF Len(e) > 5 THEN Len(e) - 5 ELSE 0)
                     /\ \A k \in 1..Len(cdn_list) : cdn_list[k] = HostName(e[k + 5])
                ELSE cdn_list = None)
    /\ [][phase # "start" => cdn_list' = cdn_list]_vars

\* A status page of seven entries gave the hosts of the sixth and the seventh,
\* and the run is over with a file downloaded.
C21_Witness ==
    /\ phase = "exit"
    /\ Len(call.reply.entries) = 7
    /\ cdn_list = <<"cdn1.bunkr.ru", "cdn2.bunkr.ru">>
    /\ \E d \in Dirs : ledger[d] # <<>>

\* C22 as stated: the batch of a call holds no two tasks of the same URL, no
\* URL is requested by two of its downloads, and the tasks of a batch append
\* at most one ledger line for a URL.
C22_OneTaskPerUrl ==
    /\ \A i, j \in 1..Len(download_tasks) :
           i # j => download_tasks[i].url # download_tasks[j].url
    /\ \A i \in 1..Len(ts) :
           Cardinality({j \in 1..Len(ts) :
                           download_tasks[j].url = download_tasks[i].url /\ ts[j].marks = 1}) <= 1

\* C23 as stated: two tasks of a batch with distinct URLs have distinct
\* destination files, so no two of them that both appended their ledger line
\* wrote the same file.
C23_DistinctFiles ==
    \A i, j \in 1..Len(download_tasks) :
        (i # j /\ download_tasks[i].url # download_tasks[j].url) =>
            ~(/\ download_tasks[i].path = download_tasks[j].path
              /\ FileName(download_tasks[i]) = FileName(download_tasks[j]))

====
